---- MODULE Spec2Model ----
(***************************************************************************)
(* NNTP client (sntran/deno_nntp): the Client of src/client.ts (the class  *)
(* at lines 141-2715), the response framer and multi-line body stream of   *)
(* src/response.ts, and the Article encoder of src/unnamed/part_000 (the   *)
(* class at lines 7-92), over one TCP connection.                          *)
(*                                                                         *)
(* Octets are integers.  Every octet the server sends carries, as history  *)
(* information only, the index k of the reply it belongs to (0 = greeting, *)
(* k = reply to the k-th command written); no operator of the program      *)
(* reads k.                                                                *)
(***************************************************************************)
EXTENDS Integers, Sequences, FiniteSets, TLC

\* ---------------------------------------------------------------- bounds
NCallers == 2
MaxCmds == 2
MaxBody == 5
MaxLines == 2
MaxLifeCmds == 3

\* ------------------------------------------------------------- constants
CR == 13
LF == 10
TERMINATION == 46
TERMINATING_LINE == <<TERMINATION, CR, LF>>
MultiLineResponseCodes == {100, 101, 215, 220, 221, 222, 224, 225, 230, 231}
\* default queuing strategy of `new ReadableStream({ pull })`
HighWaterMark == 1
\* writable side of `new TransformStream({ transform })`
WritableHighWaterMark == 1


Ids == 0..(IF MaxCmds > MaxLifeCmds THEN MaxCmds ELSE MaxLifeCmds)
Kinds == {"DATE", "HELP", "HEAD"}

\* ---------------------------------------------------------- octet helpers
Range(s) == {s[i] : i \in 1..Len(s)}
Min(a, b) == IF a < b THEN a ELSE b
Take(s, n) == SubSeq(s, 1, n)
Drop(s, n) == SubSeq(s, n + 1, Len(s))
Octets(s) == [i \in 1..Len(s) |-> s[i].b]
Tagged(bs, k) == [i \in 1..Len(bs) |-> [b |-> bs[i], k |-> k]]
IsDigit(b) == b \in 48..57
\* \s of a JavaScript regular expression, on single octets
IsSpace(b) == b \in {9, 10, 11, 12, 13, 32}
\* the /i flag on ASCII letters
ToLower(b) == IF b \in 65..90 THEN b + 32 ELSE b
Contains(s, t) ==
  \E i \in 1..(Len(s) - Len(t) + 1) :
    \A j \in 1..Len(t) : ToLower(s[i + j - 1]) = t[j]
RECURSIVE Flatten(_)
Flatten(ss) == IF ss = <<>> THEN <<>> ELSE Head(ss) \o Flatten(Tail(ss))
Digits(n) == <<48 + (n \div 100), 48 + ((n \div 10) % 10), 48 + (n % 10)>>
StatusLine(s, text) ==
  Digits(s) \o (IF text = <<>> THEN <<>> ELSE <<32>> \o text) \o <<CR, LF>>

\* ------------------------------------------------------------ response.ts
\* isTerminatingLine comparing against "." LF CR
isTerminatingLineSwapped(line) ==
  \A i \in 1..Len(line) : i <= 3 /\ line[i] = <<TERMINATION, LF, CR>>[i]

isTerminatingLine(line) ==
  \A i \in 1..Len(line) : i <= Len(TERMINATING_LINE) /\ line[i] = TERMINATING_LINE[i]

hasBody(status, statusText) ==
  IF status \in MultiLineResponseCodes THEN TRUE
  ELSE IF status = 211
       THEN Contains(statusText, <<108, 105, 115, 116>>)
            \/ Contains(statusText, <<102, 111, 108, 108, 111, 119>>)
       ELSE FALSE

\* RESPONSE_REGEX, unanchored: the leftmost [1-5][0-9][0-9], then optionally
\* \s+ (greedy) and .* (which stops at CR or LF).
StatusAt(line, i) ==
  /\ i + 2 <= Len(line)
  /\ line[i] \in 49..53
  /\ IsDigit(line[i + 1])
  /\ IsDigit(line[i + 2])
MatchIndex(line) ==
  IF \E i \in 1..Len(line) : StatusAt(line, i)
  THEN CHOOSE i \in 1..Len(line) :
         StatusAt(line, i) /\ \A j \in 1..(i - 1) : ~StatusAt(line, j)
  ELSE 0
RECURSIVE SkipSpace(_)
SkipSpace(s) == IF s # <<>> /\ IsSpace(s[1]) THEN SkipSpace(Tail(s)) ELSE s
RECURSIVE UpToLineBreak(_)
UpToLineBreak(s) ==
  IF s = <<>> \/ s[1] \in {CR, LF} THEN <<>>
  ELSE <<s[1]>> \o UpToLineBreak(Tail(s))
\* RESPONSE_REGEX whose "." also matches CR
RESPONSE_REGEXDotAll(line) ==
  LET i == MatchIndex(line) IN
  IF i = 0 THEN [matched |-> FALSE, status |-> 0, statusText |-> <<>>]
  ELSE LET rest == Drop(line, i + 2) IN
       [matched |-> TRUE,
        status |-> (line[i] - 48) * 100 + (line[i + 1] - 48) * 10 + (line[i + 2] - 48),
        statusText |-> IF rest # <<>> /\ IsSpace(rest[1])
                       THEN SelectSeq(SkipSpace(rest), LAMBDA b : b # LF) ELSE <<>>]

RESPONSE_REGEX(line) ==
  LET i == MatchIndex(line) IN
  IF i = 0 THEN [matched |-> FALSE, status |-> 0, statusText |-> <<>>]
  ELSE LET rest == Drop(line, i + 2) IN
       [matched |-> TRUE,
        status |-> (line[i] - 48) * 100 + (line[i + 1] - 48) * 10 + (line[i + 2] - 48),
        statusText |-> IF rest # <<>> /\ IsSpace(rest[1])
                       THEN UpToLineBreak(SkipSpace(rest)) ELSE <<>>]

\* BufReader.readSlice(LF) on a buffer that holds a whole line or is at EOF:
\* the line through the first LF, else (EOF) what is left; <<>> stands for null.
HasLF(buf) == \E i \in 1..Len(buf) : buf[i].b = LF
FirstLF(buf) == CHOOSE i \in 1..Len(buf) : buf[i].b = LF /\ \A j \in 1..(i - 1) : buf[j].b # LF
readSlice(buf) ==
  IF HasLF(buf)
  THEN [line |-> Take(buf, FirstLF(buf)), rest |-> Drop(buf, FirstLF(buf))]
  ELSE [line |-> buf, rest |-> <<>>]

\* HEADER_REGEX: ^name ":" \s value, name over [\x21-\x39\x3B-\x7E]
IsNameOctet(b) == b \in 33..57 \/ b \in 59..126
IsValueOctet(b) == b \in 33..255 \/ IsSpace(b)
RECURSIVE ValueRun(_)
ValueRun(s) ==
  IF s = <<>> \/ ~IsValueOctet(s[1]) THEN <<>> ELSE <<s[1]>> \o ValueRun(Tail(s))
HeaderColon(line) ==
  IF \E i \in 1..Len(line) : line[i] = 58
  THEN CHOOSE i \in 1..Len(line) : line[i] = 58 /\ \A j \in 1..(i - 1) : line[j] # 58
  ELSE 0
HEADER_REGEX(line) ==
  LET c == HeaderColon(line) IN
  IF /\ c >= 2
     /\ \A j \in 1..(c - 1) : IsNameOctet(line[j])
     /\ c + 1 <= Len(line)
     /\ IsSpace(line[c + 1])
  THEN [matched |-> TRUE, name |-> Take(line, c - 1), value |-> ValueRun(Drop(line, c + 1))]
  ELSE [matched |-> FALSE, name |-> <<>>, value |-> <<>>]
\* Headers.append: the name is lower-cased, the value trimmed of leading and
\* trailing HTTP whitespace (tab, LF, CR, space).
IsHttpSpace(b) == b \in {9, 10, 13, 32}
RECURSIVE TrimLeft(_)
TrimLeft(s) == IF s # <<>> /\ IsHttpSpace(s[1]) THEN TrimLeft(Tail(s)) ELSE s
RECURSIVE TrimRight(_)
TrimRight(s) ==
  IF s # <<>> /\ IsHttpSpace(s[Len(s)]) THEN TrimRight(Take(s, Len(s) - 1)) ELSE s
HeadersAppend(hdrs, name, value) ==
  Append(hdrs, [name |-> [i \in 1..Len(name) |-> ToLower(name[i])],
                value |-> TrimRight(TrimLeft(value))])

\* Iterating a Headers object (entries, forEach): the names lower-cased and
\* sorted by code unit, one entry per name, the values of a repeated name
\* joined by ", " in the order they were appended.
SeqLess(s, t) ==
  \E i \in 1..(Len(t)) :
    /\ \A j \in 1..(i - 1) : j <= Len(s) /\ s[j] = t[j]
    /\ (i > Len(s) \/ (i <= Len(s) /\ s[i] < t[i]))
    /\ i - 1 <= Len(s)
RECURSIVE SortNames(_)
SortNames(S) ==
  IF S = {} THEN <<>>
  ELSE LET m == CHOOSE x \in S : \A y \in S \ {x} : SeqLess(x, y)
       IN <<m>> \o SortNames(S \ {m})
RECURSIVE JoinValues(_, _)
JoinValues(hdrs, name) ==
  IF hdrs = <<>> THEN <<>>
  ELSE LET rest == JoinValues(Tail(hdrs), name) IN
       IF Head(hdrs).name # name THEN rest
       ELSE IF rest = <<>> /\ \A i \in 2..Len(hdrs) : hdrs[i].name # name
            THEN Head(hdrs).value
            ELSE Head(hdrs).value \o <<44, 32>> \o rest
HeadersEntries(hdrs) ==
  LET names == SortNames({hdrs[i].name : i \in 1..Len(hdrs)})
  IN [i \in 1..Len(names) |-> [name |-> names[i], value |-> JoinValues(hdrs, names[i])]]

\* ------------------------------------------------- one BufReader + Response
\* stage: "new" (no call yet), "written" (request has written its command),
\* "status" (parseStatus awaits a
\* line), "hpeek" (parseHeaders awaits peek(2)), "hline" (parseHeaders awaits
\* a header line), "done" (the Response has been returned to the caller).
\* History only: took, sfrom, log, sline (the line parseStatus read) and seen
\* (every octet the socket has handed to this reader, in order).
NewReader ==
  [stage |-> "new", buf |-> <<>>, eof |-> FALSE, took |-> {},
   status |-> 0, statusText |-> <<>>, sfrom |-> {}, headers |-> <<>>,
   body |-> FALSE, closed |-> FALSE, queue |-> <<>>, tslot |-> <<>>,
   want |-> FALSE, nreq |-> 0, nlines |-> 0, got |-> <<>>, ended |-> FALSE,
   log |-> <<>>, sline |-> <<>>, seen |-> <<>>]

LineReady(r) == r.eof \/ HasLF(r.buf)
PeekReady(r) == r.eof \/ Len(r.buf) >= 2

\* NNTPResponse constructor (called by Response.from with the BufReader):
\* a body stream is attached when status !== 221 && hasBody(status, statusText).
AttachBody(status, statusText) == status # 221 /\ hasBody(status, statusText)
Construct(r) ==
  [r EXCEPT !.stage = "done", !.body = AttachBody(r.status, r.statusText)]

\* parseStatus, then the status test of Response.from
parseStatus(r) ==
  LET s == readSlice(r.buf)
      m == RESPONSE_REGEX(Octets(s.line))
      r1 == [r EXCEPT !.buf = s.rest, !.status = m.status,
                      !.statusText = m.statusText,
                      !.sfrom = {s.line[i].k : i \in 1..Len(s.line)},
                      !.sline = Octets(s.line)]
  IN IF m.status = 220 \/ m.status = 221
     THEN [r1 EXCEPT !.stage = "hpeek"]
     ELSE Construct(r1)

\* parseHeaders that leaves the blank line in the buffer
parseHeadersPeekKeepBlank(r) ==
  LET next == Octets(Take(r.buf, Min(2, Len(r.buf)))) IN
  IF next = <<>> THEN Construct(r)
  ELSE IF next[1] = TERMINATION THEN Construct(r)
  ELSE IF Len(next) = 2 /\ next[1] = CR /\ next[2] = LF THEN Construct(r)
  ELSE [r EXCEPT !.stage = "hline"]

\* parseHeaders up to its readSlice of a header line
parseHeadersPeek(r) ==
  LET next == Octets(Take(r.buf, Min(2, Len(r.buf)))) IN
  IF next = <<>> THEN Construct(r)
  ELSE IF next[1] = TERMINATION THEN Construct(r)
  ELSE IF Len(next) = 2 /\ next[1] = CR /\ next[2] = LF
       THEN Construct([r EXCEPT !.buf = readSlice(r.buf).rest])
  ELSE [r EXCEPT !.stage = "hline"]

\* parseHeaders from its readSlice of a header line to the recursive call
parseHeadersLine(r) ==
  LET s == readSlice(r.buf)
      m == HEADER_REGEX(Octets(s.line))
  IN IF ~m.matched THEN Construct([r EXCEPT !.buf = s.rest])
     ELSE [r EXCEPT !.buf = s.rest, !.stage = "hpeek",
                    !.headers = HeadersAppend(r.headers, m.name, m.value)]

\* pull that closes the stream only on an empty read
pullEofOnly(r) ==
  LET s == readSlice(r.buf)
      line == Octets(s.line)
      r1 == [r EXCEPT !.buf = s.rest,
                      !.nlines = IF line = <<>> THEN @ ELSE @ + 1]
  IN IF line = <<>>
     THEN [r1 EXCEPT !.closed = TRUE,
                     !.log = Append(@, [line |-> line, out |-> "close", chunk |-> <<>>])]
     ELSE IF Len(line) >= 2 /\ line[1] = TERMINATION /\ line[2] = TERMINATION
     THEN [r1 EXCEPT !.queue = Append(@, Tail(line)),
                     !.log = Append(@, [line |-> line, out |-> "chunk", chunk |-> Tail(line)])]
     ELSE [r1 EXCEPT !.queue = Append(@, line),
                     !.log = Append(@, [line |-> line, out |-> "chunk", chunk |-> line])]

\* pull that does not undo dot-stuffing
pullVerbatim(r) ==
  LET s == readSlice(r.buf)
      line == Octets(s.line)
      r1 == [r EXCEPT !.buf = s.rest,
                      !.nlines = IF line = <<>> THEN @ ELSE @ + 1]
  IN IF isTerminatingLine(line)
     THEN [r1 EXCEPT !.closed = TRUE,
                     !.log = Append(@, [line |-> line, out |-> "close", chunk |-> <<>>])]
     ELSE [r1 EXCEPT !.queue = Append(@, line),
                     !.log = Append(@, [line |-> line, out |-> "chunk", chunk |-> line])]

\* pull(controller) of the body stream: one readSlice, then close or enqueue
pull(r) ==
  LET s == readSlice(r.buf)
      line == Octets(s.line)
      r1 == [r EXCEPT !.buf = s.rest,
                      !.nlines = IF line = <<>> THEN @ ELSE @ + 1]
  IN IF isTerminatingLine(line)
     THEN [r1 EXCEPT !.closed = TRUE,
                     !.log = Append(@, [line |-> line, out |-> "close", chunk |-> <<>>])]
     ELSE IF Len(line) >= 2 /\ line[1] = TERMINATION /\ line[2] = TERMINATION
     THEN [r1 EXCEPT !.queue = Append(@, Tail(line)),
                     !.log = Append(@, [line |-> line, out |-> "chunk", chunk |-> Tail(line)])]
     ELSE [r1 EXCEPT !.queue = Append(@, line),
                     !.log = Append(@, [line |-> line, out |-> "chunk", chunk |-> line])]

\* ReadableStreamDefaultControllerShouldCallPull for the body stream
ShouldCallPull(r) ==
  r.stage = "done" /\ r.body /\ ~r.closed /\ Len(r.queue) < HighWaterMark

\* The stream machinery that runs without the caller: the body stream pulls
\* while its queue is below the high-water mark, and the pipeThrough of
\* #getResponse moves a queued chunk into the TransformStream's writable side
\* while that has room.
RECURSIVE Pump(_)
Pump(r) ==
  IF r.queue # <<>> /\ Len(r.tslot) < WritableHighWaterMark
  THEN Pump([r EXCEPT !.tslot = Append(@, Head(r.queue)), !.queue = Tail(@)])
  ELSE IF ShouldCallPull(r) /\ LineReady(r) THEN Pump(pull(r))
  ELSE r

\* Everything the framer does with the octets it has, up to its next await
\* of a socket read.
RECURSIVE Advance(_)
Advance(r) ==
  IF r.stage = "status" /\ LineReady(r) THEN Advance(parseStatus(r))
  ELSE IF r.stage = "hpeek" /\ PeekReady(r) THEN Advance(parseHeadersPeek(r))
  ELSE IF r.stage = "hline" /\ LineReady(r) THEN Advance(parseHeadersLine(r))
  ELSE IF r.stage = "done" THEN Pump(r)
  ELSE r

\* The reader awaits a socket read (BufReader._fill).
Blocked(r) ==
  /\ ~r.eof
  /\ \/ r.stage \in {"status", "hline"} /\ ~HasLF(r.buf)
     \/ r.stage = "hpeek" /\ Len(r.buf) < 2
     \/ ShouldCallPull(r) /\ ~HasLF(r.buf)

\* ------------------------------------------------------------------ Article
\* An Article: the headers given to the constructor, in insertion order, and
\* the body: kind "none" (undefined), "string" (body holds the octets) or
\* "stream" (chunks holds what the body stream yields).
NoArticle == [hs |-> <<>>, kind |-> "none", body |-> <<>>, chunks |-> <<>>]
\* new Headers(init.headers)
RECURSIVE HeadersOf(_)
HeadersOf(hs) ==
  IF hs = <<>> THEN <<>>
  ELSE HeadersAppend(HeadersOf(Take(hs, Len(hs) - 1)), hs[Len(hs)].name, hs[Len(hs)].value)
\* `!body` of start: undefined and the empty string are falsy
BodyFalsy(a) == a.kind = "none" \/ (a.kind = "string" /\ a.body = <<>>)

\* stage: "new" (stream() not called), "pulling" (start has run, pull may be
\* called), "closed" (controller.close() has been called)
NoStream == [stage |-> "new", out |-> <<>>, nread |-> 0]

\* headers.forEach: lines.push(`${key}: ${value}\r\n`), then lines.join("")
ArticleLines(a) ==
  LET es == HeadersEntries(HeadersOf(a.hs))
  IN Flatten([i \in 1..Len(es) |-> es[i].name \o <<58, 32>> \o es[i].value \o <<CR, LF>>])

\* start(controller) of Article.stream()
ArticleStart(a) ==
  LET lines == ArticleLines(a)
      o1 == IF lines # <<>> THEN <<lines>> ELSE <<>>
      o2 == IF lines # <<>> THEN Append(o1, <<CR, LF>>) ELSE o1
  IN IF BodyFalsy(a) THEN [stage |-> "closed", out |-> o1, nread |-> 0]
     ELSE IF a.kind = "string"
     THEN [stage |-> "closed",
           out |-> Append(o2, a.body \o <<CR, LF>> \o TERMINATING_LINE),
           nread |-> 0]
     ELSE [stage |-> "pulling", out |-> o2, nread |-> 0]

\* pull(controller) of Article.stream(): one read of the body stream
ArticlePull(a, st) ==
  IF st.nread < Len(a.chunks)
  THEN [st EXCEPT !.out = Append(@, a.chunks[st.nread + 1]), !.nread = @ + 1]
  ELSE [st EXCEPT !.out = Append(@, TERMINATING_LINE), !.stage = "closed"]

\* copy(readerFromStreamReader(stream.getReader()), writer): every chunk of
\* the stream, in order
RECURSIVE ArticleDrain(_, _)
ArticleDrain(a, st) ==
  IF st.stage = "new" THEN ArticleDrain(a, ArticleStart(a))
  ELSE IF st.stage = "pulling" THEN ArticleDrain(a, ArticlePull(a, st))
  ELSE Flatten(st.out)

\* A call of post or ihave: op, whether an article was passed (given), pc
\* "first" (awaiting the reply to POST/IHAVE), "second" (awaiting the reply to
\* the article), "returned"; k the request that wrote the command, result the
\* request whose Response was returned.
NoCall == [op |-> "none", given |-> FALSE, pc |-> "none", k |-> 0, result |-> 0]

\* ----------------------------------------------------------------- server
Reply(kind) ==
  CASE kind = "DATE" -> StatusLine(111, <<49>>)
    [] kind = "HELP" -> StatusLine(100, <<>>) \o <<97, CR, LF>> \o TERMINATING_LINE
    [] kind = "HEAD" -> StatusLine(221, <<>>) \o <<115, 58, 32, CR, LF>> \o TERMINATING_LINE
ReplyStatus(kind) ==
  CASE kind = "DATE" -> 111 [] kind = "HELP" -> 100 [] kind = "HEAD" -> 221
Greeting == StatusLine(200, <<>>)

\* ConnectOptions: the ssl flag (hostname, port and logLevel play no part)
Options == [ssl : BOOLEAN]
DefaultOptions == [ssl |-> FALSE]
\* Deno.connect(this.#options): a TCP connection, whatever the options hold
DenoConnect(opts) == "tcp"

\* ------------------------------------------------------------------ state
VARIABLES
  conn,      \* #connection: "none", "open", "closed"
  cmds,      \* the commands written to the connection, in order
  served,    \* how many of them the server has answered
  wire,      \* octets the server has sent and no socket read has returned yet
  srvEof,    \* the server has closed its side of the connection
  readq,     \* readers awaiting a socket read, in the order they asked
  rd,        \* per call k (0 = connect, k = k-th request): its stage, the
             \* BufReader of its Response.from and its Response
  writeLog,  \* history: what was outstanding when each command was written
  art,       \* the Article given to post/ihave or being encoded
  astream,   \* the ReadableStream of Article.stream(): chunks enqueued so far
  call,      \* the call of post/ihave in progress
  written,   \* the octets last written to the connection by a request
  options    \* #options: the ConnectOptions given to the constructor

vars == <<conn, cmds, served, wire, srvEof, readq, rd, writeLog, art, astream, call, written, options>>

Init ==
  /\ conn = "none"
  /\ cmds = <<>>
  /\ served = 0
  /\ wire = <<>>
  /\ srvEof = FALSE
  /\ readq = <<>>
  /\ rd = [k \in Ids |-> NewReader]
  /\ writeLog = <<>>
  /\ art = NoArticle
  /\ astream = NoStream
  /\ call = NoCall
  /\ written = <<>>
  /\ options \in Options

\* the transport under #connection
Transport == IF conn = "open" THEN DenoConnect(options) ELSE "none"

\* responses returned to a caller whose body terminator has not been read
Live == {k \in Ids : rd[k].stage = "done" /\ rd[k].body /\ ~rd[k].closed}
\* calls of request that have written their command and not returned
InFlight == {k \in Ids : rd[k].stage \notin {"new", "done"}}

Requeue(q, k, r) == IF Blocked(r) THEN Append(q, k) ELSE q

\* Client.connect: Deno.connect, then #getResponse reads the greeting
Connect ==
  /\ conn = "none"
  /\ conn' = "open"
  /\ wire' = Tagged(Greeting, 0)
  /\ rd' = [rd EXCEPT ![0].stage = "status"]
  /\ readq' = Append(readq, 0)
  /\ UNCHANGED <<options, cmds, served, srvEof, writeLog, art, astream, call, written>>

\* Client.request up to the end of copy(reader, writer): the command line
\* is written to the connection.  Any of the NCallers callers that is not
\* inside a call may make the call.
Request(kind) ==
  /\ conn = "open"
  /\ rd[0].stage = "done"
  /\ Cardinality(InFlight) < NCallers
  /\ Len(cmds) < MaxCmds
  /\ cmds' = Append(cmds, kind)
  /\ rd' = [rd EXCEPT ![Len(cmds) + 1].stage = "written"]
  /\ writeLog' = Append(writeLog, [k |-> Len(cmds) + 1, live |-> Live, inflight |-> InFlight])
  /\ UNCHANGED <<options, conn, served, wire, srvEof, readq, art, astream, call, written>>

\* Client.request after the write: #getResponse calls Response.from, which
\* makes a new BufReader on the connection and awaits the status line.
\* Writes complete in the order they were issued.
GetResponse(k) ==
  /\ rd[k].stage = "written"
  /\ \A j \in Ids : j < k => rd[j].stage # "written"
  /\ rd' = [rd EXCEPT ![k].stage = "status"]
  /\ readq' = Append(readq, k)
  /\ UNCHANGED <<options, conn, cmds, served, wire, srvEof, writeLog, art, astream, call, written>>

\* the server answers the oldest unanswered command
ServerReply ==
  /\ served < Len(cmds)
  /\ wire' = wire \o Tagged(Reply(cmds[served + 1]), served + 1)
  /\ served' = served + 1
  /\ UNCHANGED <<options, conn, cmds, srvEof, readq, rd, writeLog, art, astream, call, written>>

\* a socket read returns n octets to the reader that asked first; the
\* reader then runs until it awaits the socket again
Read(n) ==
  LET k == Head(readq)
      r == Advance([rd[k] EXCEPT !.buf = @ \o Take(wire, n),
                                 !.took = @ \cup {wire[i].k : i \in 1..n},
                                 !.seen = @ \o Take(wire, n)])
  IN /\ rd' = [rd EXCEPT ![k] = r]
     /\ wire' = Drop(wire, n)
     /\ readq' = Requeue(Tail(readq), k, r)
     /\ UNCHANGED <<options, conn, cmds, served, srvEof, writeLog, art, astream, call, written>>

\* In a session the octets reach the client in segments that end at the end
\* of what the server has sent, at the end of a line, or between the CR and
\* the LF of a line.
Fill ==
  /\ readq # <<>>
  /\ wire # <<>>
  /\ \E n \in {m \in 1..Len(wire) : m = Len(wire) \/ wire[m].b \in {CR, LF}} : Read(n)

\* Any segmentation: a socket read returns any non-empty prefix.
FillAny ==
  /\ readq # <<>>
  /\ wire # <<>>
  /\ \E n \in 1..Len(wire) : Read(n)

\* a socket read returns end-of-stream
FillEof ==
  /\ readq # <<>>
  /\ wire = <<>>
  /\ srvEof
  /\ LET k == Head(readq)
         r == Advance([rd[k] EXCEPT !.eof = TRUE])
     IN /\ rd' = [rd EXCEPT ![k] = r]
        /\ readq' = Tail(readq)
  /\ UNCHANGED <<options, conn, cmds, served, wire, srvEof, writeLog, art, astream, call, written>>

ServerClose ==
  /\ conn = "open"
  /\ ~srvEof
  /\ srvEof' = TRUE
  /\ UNCHANGED <<options, conn, cmds, served, wire, readq, rd, writeLog, art, astream, call, written>>

\* the caller asks the Response body for its next chunk
ReadRequest(k) ==
  /\ rd[k].stage = "done"
  /\ rd[k].body
  /\ ~rd[k].want
  /\ ~rd[k].ended
  /\ rd' = [rd EXCEPT ![k].want = TRUE, ![k].nreq = @ + 1]
  /\ UNCHANGED <<options, conn, cmds, served, wire, srvEof, readq, writeLog, art, astream, call, written>>

\* the pending read of the caller gets the chunk held by the TransformStream
Deliver(k) ==
  /\ rd[k].want
  /\ rd[k].tslot # <<>>
  /\ LET r == Pump([rd[k] EXCEPT !.want = FALSE,
                                 !.got = Append(@, Head(rd[k].tslot)),
                                 !.tslot = Tail(@)])
     IN /\ rd' = [rd EXCEPT ![k] = r]
        /\ readq' = IF Blocked(r) /\ k \notin Range(readq) THEN Append(readq, k) ELSE readq
  /\ UNCHANGED <<options, conn, cmds, served, wire, srvEof, writeLog, art, astream, call, written>>

\* the pending read of the caller gets end-of-stream
DeliverEnd(k) ==
  /\ rd[k].want
  /\ rd[k].closed
  /\ rd[k].queue = <<>>
  /\ rd[k].tslot = <<>>
  /\ rd' = [rd EXCEPT ![k].want = FALSE, ![k].ended = TRUE]
  /\ UNCHANGED <<options, conn, cmds, served, wire, srvEof, readq, writeLog, art, astream, call, written>>

Next ==
  \/ Connect
  \/ \E kind \in Kinds : Request(kind)
  \/ \E k \in Ids : GetResponse(k)
  \/ ServerReply
  \/ Fill
  \/ \E k \in Ids : ReadRequest(k)
  \/ \E k \in Ids : Deliver(k)
  \/ \E k \in Ids : DeliverEnd(k)

Spec == Init /\ [][Next]_vars

\* ------------------------------------------------------- cancelling a body
\* The caller cancels Response.body before end-of-stream.  The cancel passes
\* through the TransformStream of #getResponse to the body stream, whose
\* underlying source has only a pull function: the stream is closed, what it
\* had queued is dropped, pull is not called again.  A socket read that pull
\* was awaiting is not withdrawn.  Neither stream holds the Client, and
\* nothing else happens.
Cancel(k) ==
  /\ rd[k].stage = "done"
  /\ rd[k].body
  /\ ~rd[k].ended
  /\ ~rd[k].want
  /\ ~rd[k].closed
  /\ rd' = [rd EXCEPT ![k].closed = TRUE, ![k].ended = TRUE,
                      ![k].queue = <<>>, ![k].tslot = <<>>,
                      ![k].log = Append(@, [line |-> <<>>, out |-> "cancel", chunk |-> <<>>])]
  /\ UNCHANGED <<options, conn, cmds, served, wire, srvEof, readq, writeLog, art, astream, call, written>>

NextCancel ==
  \/ Connect
  \/ \E kind \in Kinds : Request(kind)
  \/ \E k \in Ids : GetResponse(k)
  \/ ServerReply
  \/ Fill
  \/ \E k \in Ids : ReadRequest(k)
  \/ \E k \in Ids : Deliver(k)
  \/ \E k \in Ids : DeliverEnd(k)
  \/ \E k \in Ids : Cancel(k)

SpecCancel == Init /\ [][NextCancel]_vars

\* ------------------------------------------------------ one reply, any octets
\* The framer and the body stream on one reply made of arbitrary octets: a
\* status line for each status and text below followed by a short block, and
\* a 100 reply followed by every octet string over Alphabet up to MaxBody,
\* cut into socket reads in every way, with the server free to close the
\* connection at any moment.
Alphabet == {TERMINATION, CR, LF, 97}
Statuses ==
  {100, 101, 111, 200, 205, 211, 215, 220, 221, 222, 223, 224, 225, 230, 231,
   240, 281, 335, 340, 381, 411, 430, 480, 500}
Texts == {<<>>, <<97>>, <<108, 105, 115, 116>>}
Blocks == {TERMINATING_LINE, <<97, CR, LF>> \o TERMINATING_LINE}
OctetStrings(n) == UNION {[1..m -> Alphabet] : m \in 0..n}
WireInputs ==
  {StatusLine(s, t) \o b : s \in Statuses, t \in Texts, b \in Blocks}
  \cup {StatusLine(100, <<>>) \o b : b \in OctetStrings(MaxBody)}

\* Status lines whose text begins or ends with a space or holds a bare CR,
\* and first lines that are not a status line: "a", an empty line, "1000".
OddTexts == {<<32, 97>>, <<97, 32>>, <<97, CR, 97>>}
OddLines ==
  {StatusLine(s, t) : s \in {111, 200}, t \in OddTexts}
  \cup {<<97, CR, LF>>, <<CR, LF>>, <<49, 48, 48, 48, CR, LF>>}

\* 211 replies to GROUP (single line) and to LISTGROUP (a list of article
\* numbers follows): "211 1 <group>[ list]", for the groups "a" and "list".
GroupNames == {<<97>>, <<108, 105, 115, 116>>}
GroupTrailers == {<<>>, <<32, 108, 105, 115, 116>>}
GroupTexts == {<<49, 32>> \o g \o t : g \in GroupNames, t \in GroupTrailers}
GroupReply(cmd, text) ==
  IF cmd = "GROUP" THEN StatusLine(211, text)
  ELSE StatusLine(211, text) \o <<49, CR, LF>> \o TERMINATING_LINE

\* 220 replies to ARTICLE: header lines, the blank line, body lines, the
\* terminator.  Names "a" and "B", values "v" and "w", body line "h".
HeaderA(v) == [name |-> <<97>>, value |-> <<v>>]
HeaderB(v) == [name |-> <<66>>, value |-> <<v>>]
HeaderLists ==
  {<<>>, <<HeaderA(118)>>, <<HeaderB(118), HeaderA(119)>>,
   <<HeaderA(118), HeaderA(119)>>}
BodyLists == {<<>>, <<<<104, CR, LF>>>>}
ArticleReplies == [hs : HeaderLists, body : BodyLists]
HeaderLine(h) == h.name \o <<58, 32>> \o h.value \o <<CR, LF>>
Render(a) ==
  StatusLine(220, <<>>)
  \o Flatten([i \in 1..Len(a.hs) |-> HeaderLine(a.hs[i])])
  \o <<CR, LF>> \o Flatten(a.body) \o TERMINATING_LINE

\* the command written and the octets the server answers it with
WireCases ==
  {[cmd |-> "HELP", reply |-> w] : w \in WireInputs}
  \cup {[cmd |-> "DATE", reply |-> w] : w \in OddLines}
  \cup {[cmd |-> c, reply |-> GroupReply(c, t)] : c \in {"GROUP", "LISTGROUP"}, t \in GroupTexts}
  \cup {[cmd |-> "ARTICLE", reply |-> Render(a)] : a \in ArticleReplies}

\* The client has connected and read the greeting, one request has written
\* its command and awaits the status line; the server's reply is on the wire.
InitWire ==
  /\ conn = "open"
  /\ served = 1
  /\ \E c \in WireCases : cmds = <<c.cmd>> /\ wire = Tagged(c.reply, 1)
  /\ srvEof = FALSE
  /\ readq = <<1>>
  /\ rd = [k \in Ids |->
             IF k = 0 THEN Advance([NewReader EXCEPT !.stage = "status",
                                                      !.buf = Tagged(Greeting, 0),
                                                      !.took = {0}])
             ELSE IF k = 1 THEN [NewReader EXCEPT !.stage = "status"]
             ELSE NewReader]
  /\ writeLog = <<[k |-> 1, live |-> {}, inflight |-> {}]>>
  /\ art = NoArticle
  /\ astream = NoStream
  /\ call = NoCall
  /\ written = <<>>
  /\ options = DefaultOptions

NextWire ==
  \/ FillAny
  \/ FillEof
  \/ ServerClose
  \/ \E k \in Ids : ReadRequest(k)
  \/ \E k \in Ids : Deliver(k)
  \/ \E k \in Ids : DeliverEnd(k)

SpecWire == InitWire /\ [][NextWire]_vars

\* ------------------------------------------------------- draining a body
\* One well-formed multi-line reply (100 to HELP, 211 to LISTGROUP, 220 to
\* ARTICLE) whose body holds up to MaxLines lines: a plain line, an empty
\* line, a dot-stuffed line.  The caller keeps reading the body and the
\* connection keeps delivering what the server has sent, under any
\* segmentation: every read the caller can ask for is asked, every pending
\* read is answered when it can be, and octets on the wire reach a reader
\* that awaits them.
DrainLines == {<<97, CR, LF>>, <<CR, LF>>, <<TERMINATION, TERMINATION, 97, CR, LF>>}
DrainBodies == UNION {[1..n -> DrainLines] : n \in 0..MaxLines}
DrainCases ==
  {[cmd |-> "HELP", reply |-> StatusLine(100, <<>>) \o Flatten(b) \o TERMINATING_LINE] :
     b \in DrainBodies}
  \cup {[cmd |-> "LISTGROUP", reply |-> GroupReply("LISTGROUP", t)] : t \in GroupTexts}
  \cup {[cmd |-> "ARTICLE", reply |-> Render(a)] : a \in ArticleReplies}

InitDrain ==
  /\ conn = "open"
  /\ served = 1
  /\ \E c \in DrainCases : cmds = <<c.cmd>> /\ wire = Tagged(c.reply, 1)
  /\ srvEof = FALSE
  /\ readq = <<1>>
  /\ rd = [k \in Ids |->
             IF k = 0 THEN Advance([NewReader EXCEPT !.stage = "status",
                                                      !.buf = Tagged(Greeting, 0),
                                                      !.took = {0}])
             ELSE IF k = 1 THEN [NewReader EXCEPT !.stage = "status"]
             ELSE NewReader]
  /\ writeLog = <<[k |-> 1, live |-> {}, inflight |-> {}]>>
  /\ art = NoArticle
  /\ astream = NoStream
  /\ call = NoCall
  /\ written = <<>>
  /\ options = DefaultOptions

NextDrain ==
  \/ FillAny
  \/ \E k \in Ids : ReadRequest(k)
  \/ \E k \in Ids : Deliver(k)
  \/ \E k \in Ids : DeliverEnd(k)

\* Weak fairness of FillAny, written out: FillAny is enabled exactly when a
\* reader awaits the socket and the wire is not empty, and the steps of
\* FillAny are the steps of NextDrain that change the wire.
FillFairness ==
  []<>(~(readq # <<>> /\ wire # <<>>)) \/ []<><<wire' # wire>>_vars

SpecDrain ==
  /\ InitDrain
  /\ [][NextDrain]_vars
  /\ FillFairness
  /\ WF_vars(\E k \in Ids : ReadRequest(k))
  /\ WF_vars(\E k \in Ids : Deliver(k))
  /\ WF_vars(\E k \in Ids : DeliverEnd(k))

\* ------------------------------------------- Article.stream() and read-back
\* Article.stream() on Articles with the header lists above and bodies of up
\* to MaxLines lines (and two bodies that do not end in CRLF), as a string
\* and as a stream cut into one or two chunks at every place; the octets
\* emitted for the body are then served back as a 222 reply and read through
\* the body stream.
BodyLines ==
  {<<97, CR, LF>>, <<TERMINATION, CR, LF>>, <<TERMINATION, 97, CR, LF>>,
   <<TERMINATION, TERMINATION, CR, LF>>}
ArticleBodies ==
  {Flatten(ls) : ls \in UNION {[1..n -> BodyLines] : n \in 1..MaxLines}}
  \cup {<<97>>, <<TERMINATION, 97>>}
Splits(b) == {<<b>>} \cup {<<Take(b, i), Drop(b, i)>> : i \in 1..(Len(b) - 1)}
Articles ==
  {[hs |-> h, kind |-> "none", body |-> <<>>, chunks |-> <<>>] : h \in HeaderLists}
  \cup {[hs |-> h, kind |-> "string", body |-> b, chunks |-> <<>>] :
          h \in HeaderLists, b \in ArticleBodies \cup {<<>>}}
  \cup {[hs |-> h, kind |-> "stream", body |-> <<>>, chunks |-> c] :
          h \in HeaderLists, c \in UNION {Splits(b) : b \in ArticleBodies}}

\* the octets Article.stream() emits before the body
ArticleHead(a) ==
  IF ArticleLines(a) = <<>> THEN <<>>
  ELSE IF BodyFalsy(a) THEN ArticleLines(a)
  ELSE ArticleLines(a) \o <<CR, LF>>

InitArticle ==
  /\ conn = "open"
  /\ cmds = <<>>
  /\ served = 0
  /\ wire = <<>>
  /\ srvEof = FALSE
  /\ readq = <<>>
  /\ rd = [k \in Ids |->
             IF k = 0 THEN Advance([NewReader EXCEPT !.stage = "status",
                                                      !.buf = Tagged(Greeting, 0),
                                                      !.took = {0}])
             ELSE NewReader]
  /\ writeLog = <<>>
  /\ art \in Articles
  /\ astream = NoStream
  /\ call = NoCall
  /\ written = <<>>
  /\ options = DefaultOptions

\* article.stream(): the ReadableStream is constructed and start runs
StreamStart ==
  /\ astream.stage = "new"
  /\ astream' = ArticleStart(art)
  /\ UNCHANGED <<options, conn, cmds, served, wire, srvEof, readq, rd, writeLog, art, call, written>>

\* the stream's pull runs once
StreamPull ==
  /\ astream.stage = "pulling"
  /\ astream' = ArticlePull(art, astream)
  /\ UNCHANGED <<options, conn, cmds, served, wire, srvEof, readq, rd, writeLog, art, call, written>>

\* The octets emitted for the body, terminator included, come back as the
\* block of a 222 reply to a BODY command.
ReadBack ==
  /\ astream.stage = "closed"
  /\ cmds = <<>>
  /\ cmds' = <<"BODY">>
  /\ served' = 1
  /\ wire' = Tagged(StatusLine(222, <<>>)
                      \o Drop(Flatten(astream.out), Len(ArticleHead(art))), 1)
  /\ rd' = [rd EXCEPT ![1].stage = "status"]
  /\ readq' = <<1>>
  /\ writeLog' = Append(writeLog, [k |-> 1, live |-> Live, inflight |-> InFlight])
  /\ UNCHANGED <<options, conn, srvEof, art, astream, call, written>>

NextArticle ==
  \/ StreamStart
  \/ StreamPull
  \/ ReadBack
  \/ Fill
  \/ \E k \in Ids : ReadRequest(k)
  \/ \E k \in Ids : Deliver(k)
  \/ \E k \in Ids : DeliverEnd(k)

SpecArticle == InitArticle /\ [][NextArticle]_vars

\* ------------------------------------------------------------ post and ihave
\* One call of post or ihave, with or without an Article, the server
\* answering POST, IHAVE and the article with each status it may send.
PostStatuses == {340, 440, 480, 500, 502}
IhaveStatuses == {335, 435, 436}
PostFinalStatuses == {240, 441}
IhaveFinalStatuses == {235, 436, 437}
PostArticles ==
  {[hs |-> <<HeaderA(118)>>, kind |-> "string", body |-> <<97>>, chunks |-> <<>>],
   [hs |-> <<HeaderA(118)>>, kind |-> "none", body |-> <<>>, chunks |-> <<>>],
   [hs |-> <<HeaderA(118)>>, kind |-> "string", body |-> <<>>, chunks |-> <<>>],
   [hs |-> <<>>, kind |-> "stream", body |-> <<>>, chunks |-> <<<<97, CR, LF>>>>]}

InitPost ==
  /\ conn = "open"
  /\ cmds = <<>>
  /\ served = 0
  /\ wire = <<>>
  /\ srvEof = FALSE
  /\ readq = <<>>
  /\ rd = [k \in Ids |->
             IF k = 0 THEN Advance([NewReader EXCEPT !.stage = "status",
                                                      !.buf = Tagged(Greeting, 0),
                                                      !.took = {0}])
             ELSE NewReader]
  /\ writeLog = <<>>
  /\ art \in PostArticles
  /\ astream = NoStream
  /\ call = NoCall
  /\ written = <<>>
  /\ options = DefaultOptions

\* request(command) of post and ihave, up to the end of the write
WriteCommand(kind) ==
  /\ cmds' = Append(cmds, kind)
  /\ rd' = [rd EXCEPT ![Len(cmds) + 1].stage = "written"]
  /\ writeLog' = Append(writeLog, [k |-> Len(cmds) + 1, live |-> Live, inflight |-> InFlight])

\* Client.post(article?): request(Command.POST) writes the command
Post(given) ==
  /\ conn = "open"
  /\ call.op = "none"
  /\ Len(cmds) + 2 <= MaxCmds
  /\ WriteCommand("POST")
  /\ call' = [op |-> "post", given |-> given, pc |-> "first", k |-> Len(cmds) + 1, result |-> 0]
  /\ UNCHANGED <<options, conn, served, wire, srvEof, readq, art, astream, written>>

\* Client.ihave(messageId, article?): request(Command.IHAVE, messageId)
Ihave(given) ==
  /\ conn = "open"
  /\ call.op = "none"
  /\ Len(cmds) + 2 <= MaxCmds
  /\ WriteCommand("IHAVE")
  /\ call' = [op |-> "ihave", given |-> given, pc |-> "first", k |-> Len(cmds) + 1, result |-> 0]
  /\ UNCHANGED <<options, conn, served, wire, srvEof, readq, art, astream, written>>

\* post and ihave after the first response: return it, or
\* request(article.stream()), which copies the whole stream to the connection
PostResume ==
  /\ call.pc = "first"
  /\ rd[call.k].stage = "done"
  /\ IF \/ ~call.given
        \/ call.op = "post" /\ rd[call.k].status = 440
        \/ call.op = "ihave" /\ rd[call.k].status # 335
     THEN /\ call' = [call EXCEPT !.pc = "returned", !.result = call.k]
          /\ UNCHANGED <<options, cmds, rd, writeLog, written>>
     ELSE /\ WriteCommand("ARTICLE")
          /\ written' = ArticleDrain(art, NoStream)
          /\ call' = [call EXCEPT !.pc = "second"]
  /\ UNCHANGED <<options, conn, served, wire, srvEof, readq, art, astream>>

\* post and ihave return the response of request(article.stream())
PostReturn ==
  /\ call.pc = "second"
  /\ rd[Len(cmds)].stage = "done"
  /\ call' = [call EXCEPT !.pc = "returned", !.result = Len(cmds)]
  /\ UNCHANGED <<options, conn, cmds, served, wire, srvEof, readq, rd, writeLog, art, astream, written>>

\* the server saw the end of the article: "." CRLF at the start of a line
SawTerminator(bs) ==
  \/ Len(bs) >= 3 /\ Take(bs, 3) = TERMINATING_LINE
  \/ \E i \in 1..(Len(bs) - 4) : SubSeq(bs, i, i + 4) = <<CR, LF>> \o TERMINATING_LINE

\* The server answers the oldest unanswered write: POST and IHAVE with any
\* of their statuses; an article it asked for, once it has seen the
\* terminator, with a final status; octets it did not ask for are a command
\* it does not know (500).
PostReply ==
  /\ served < Len(cmds)
  /\ LET c == cmds[served + 1]
         invited == rd[call.k].status \in {340, 335}
         ss == CASE c = "POST" -> PostStatuses
                 [] c = "IHAVE" -> IhaveStatuses
                 [] c = "ARTICLE" /\ ~invited -> {500}
                 [] c = "ARTICLE" /\ invited /\ ~SawTerminator(written) -> {}
                 [] c = "ARTICLE" /\ invited /\ SawTerminator(written) ->
                      IF call.op = "post" THEN PostFinalStatuses ELSE IhaveFinalStatuses
     IN \E st \in ss : wire' = wire \o Tagged(StatusLine(st, <<>>), served + 1)
  /\ served' = served + 1
  /\ UNCHANGED <<options, conn, cmds, srvEof, readq, rd, writeLog, art, astream, call, written>>

NextPost ==
  \/ \E given \in BOOLEAN : Post(given)
  \/ \E given \in BOOLEAN : Ihave(given)
  \/ PostResume
  \/ PostReturn
  \/ PostReply
  \/ \E k \in Ids : GetResponse(k)
  \/ Fill

SpecPost == InitPost /\ [][NextPost]_vars

\* ------------------------------------------------------------ command lines
\* An argument of request: undefined, or a string of octets.
Undefined == [def |-> FALSE, s |-> <<>>]
Str(s) == [def |-> TRUE, s |-> s]

\* String.prototype.toUpperCase on ASCII
ToUpper(b) == IF b \in 97..122 THEN b - 32 ELSE b
toUpperCase(s) == [i \in 1..Len(s) |-> ToUpper(s[i])]

\* /^[^<][^@]+@[^>]+$/.test(arg): one octet that is not "<", one or more
\* that are not "@", an "@", then one or more octets up to the end, none ">"
MessageIdLike(s) ==
  /\ Len(s) >= 4
  /\ s[1] # 60
  /\ \E p \in 3..(Len(s) - 1) :
       /\ s[p] = 64
       /\ \A i \in 2..(p - 1) : s[i] # 64
       /\ \A i \in (p + 1)..Len(s) : s[i] # 62

\* normalize(arg = ""): an undefined argument becomes the empty string
normalize(arg) ==
  LET s == IF arg.def THEN arg.s ELSE <<>>
  IN IF MessageIdLike(s) THEN <<60>> \o s \o <<62>> ELSE s

\* Array.prototype.join(" ")
RECURSIVE join(_)
join(ss) ==
  IF ss = <<>> THEN <<>>
  ELSE IF Len(ss) = 1 THEN Head(ss)
  ELSE Head(ss) \o <<32>> \o join(Tail(ss))

\* the line request(input, ...args) hands to copy(reader, writer)
CommandLine(input, args) ==
  join(<<toUpperCase(input)>> \o [i \in 1..Len(args) |-> normalize(args[i])]) \o <<CR, LF>>

\* the keywords of Command, as octets
Keyword(kind) ==
  CASE kind = "DATE" -> <<68, 65, 84, 69>>
    [] kind = "QUIT" -> <<81, 85, 73, 84>>
    [] kind = "AUTHINFO USER" -> <<65, 85, 84, 72, 73, 78, 70, 79, 32, 85, 83, 69, 82>>
    [] kind = "AUTHINFO PASS" -> <<65, 85, 84, 72, 73, 78, 70, 79, 32, 80, 65, 83, 83>>
    [] kind = "CAPABILITIES" -> <<67, 65, 80, 65, 66, 73, 76, 73, 84, 73, 69, 83>>
    [] kind = "LISTGROUP" -> <<76, 73, 83, 84, 71, 82, 79, 85, 80>>
    [] kind = "NEWGROUPS" -> <<78, 69, 87, 71, 82, 79, 85, 80, 83>>

\* ------------------------------------------------- connect, authinfo, quit, close
\* One caller that awaits each call before it makes the next: connect, date,
\* authinfo(u, p), quit, close, and connect again after a close.  The server
\* answers each command with any status it may send, may send a line that
\* is no status line, and may close the connection at any time.

\* Client has the fields #options, #connection and #logger and no others;
\* reading client.authenticated yields undefined at every moment.
authenticated == "undefined"

Username == Str(<<117>>)
Password == Str(<<112>>)
UserStatuses == {281, 381, 481, 482, 483}
PassStatuses == {281, 481}
QuitStatuses == {205}
\* the replies to DATE: its status line, or a line that is no status line
DateReplies == {StatusLine(111, <<49>>), <<97, CR, LF>>}

\* the caller is not inside a call
Idle ==
  /\ call.pc \in {"none", "returned", "threw"}
  /\ conn # "none"
  /\ rd[0].stage = "done"

\* request(kind, ...args) of the call c up to the end of copy(reader, writer):
\* the line is written, or the write throws (the connection was closed by
\* close(), or the server has closed it and the write fails with a broken
\* pipe).  No branch of request closes the connection.
RequestWrite(c, pc, kind, args) ==
  \/ /\ conn = "open"
     /\ WriteCommand(kind)
     /\ written' = CommandLine(Keyword(kind), args)
     /\ call' = [c EXCEPT !.pc = pc, !.k = IF pc = "first" THEN Len(cmds) + 1 ELSE c.k]
  \/ /\ conn = "closed" \/ srvEof
     /\ call' = [c EXCEPT !.pc = "threw"]
     /\ UNCHANGED <<options, cmds, rd, writeLog, written>>

\* Client.date(): request(Command.DATE)
Date ==
  /\ Idle
  /\ Len(cmds) < MaxLifeCmds
  /\ RequestWrite([NoCall EXCEPT !.op = "date"], "first", "DATE", <<>>)
  /\ UNCHANGED <<options, conn, served, wire, srvEof, readq, art, astream>>

\* Client.authinfo(username, password): request("AUTHINFO USER", username)
Authinfo ==
  /\ Idle
  /\ Len(cmds) + 2 <= MaxLifeCmds
  /\ RequestWrite([NoCall EXCEPT !.op = "authinfo"], "first", "AUTHINFO USER", <<Username>>)
  /\ UNCHANGED <<options, conn, served, wire, srvEof, readq, art, astream>>

\* Client.quit(): request(Command.QUIT)
Quit ==
  /\ Idle
  /\ Len(cmds) < MaxLifeCmds
  /\ RequestWrite([NoCall EXCEPT !.op = "quit"], "first", "QUIT", <<>>)
  /\ UNCHANGED <<options, conn, served, wire, srvEof, readq, art, astream>>

\* date() returns the Response of its request
DateReturn ==
  /\ call.op = "date"
  /\ call.pc = "first"
  /\ rd[call.k].stage = "done"
  /\ call' = [call EXCEPT !.pc = "returned", !.result = call.k]
  /\ UNCHANGED <<options, conn, cmds, served, wire, srvEof, readq, rd, writeLog, art, astream, written>>

\* authinfo that asks for the password after a 281
AuthResumeOn281 ==
  /\ call.op = "authinfo"
  /\ call.pc = "first"
  /\ rd[call.k].stage = "done"
  /\ IF rd[call.k].status = 281
     THEN RequestWrite(call, "second", "AUTHINFO PASS", <<Password>>)
     ELSE /\ call' = [call EXCEPT !.pc = "returned", !.result = call.k]
          /\ UNCHANGED <<options, cmds, rd, writeLog, written>>
  /\ UNCHANGED <<options, conn, served, wire, srvEof, readq, art, astream>>

\* authinfo after the reply to AUTHINFO USER: if its status is 381,
\* request("AUTHINFO PASS", password); otherwise return it
AuthResume ==
  /\ call.op = "authinfo"
  /\ call.pc = "first"
  /\ rd[call.k].stage = "done"
  /\ IF rd[call.k].status = 381
     THEN RequestWrite(call, "second", "AUTHINFO PASS", <<Password>>)
     ELSE /\ call' = [call EXCEPT !.pc = "returned", !.result = call.k]
          /\ UNCHANGED <<options, cmds, rd, writeLog, written>>
  /\ UNCHANGED <<options, conn, served, wire, srvEof, readq, art, astream>>

\* authinfo returns the reply to AUTHINFO PASS
AuthReturn ==
  /\ call.op = "authinfo"
  /\ call.pc = "second"
  /\ rd[call.k + 1].stage = "done"
  /\ call' = [call EXCEPT !.pc = "returned", !.result = call.k + 1]
  /\ UNCHANGED <<options, conn, cmds, served, wire, srvEof, readq, rd, writeLog, art, astream, written>>

\* quit that returns the reply and leaves the connection open
QuitResumeNoClose ==
  /\ call.op = "quit"
  /\ call.pc = "first"
  /\ rd[call.k].stage = "done"
  /\ call' = [call EXCEPT !.pc = "returned", !.result = call.k]
  /\ UNCHANGED <<options, conn, cmds, served, wire, srvEof, readq, rd, writeLog, art, astream, written>>

\* quit after the reply to QUIT: this.#connection?.close(); return response
QuitResume ==
  /\ call.op = "quit"
  /\ call.pc = "first"
  /\ rd[call.k].stage = "done"
  /\ conn' = "closed"
  /\ call' = [call EXCEPT !.pc = "returned", !.result = call.k]
  /\ UNCHANGED <<options, cmds, served, wire, srvEof, readq, rd, writeLog, art, astream, written>>

\* Client.close(): this.#connection?.close().  Deno.Conn.close() on a
\* connection that is already closed throws BadResource.
Close ==
  /\ Idle
  /\ conn' = "closed"
  /\ call' = [NoCall EXCEPT !.op = "close",
                            !.pc = IF conn = "open" THEN "returned" ELSE "threw"]
  /\ UNCHANGED <<options, cmds, served, wire, srvEof, readq, rd, writeLog, art, astream, written>>

\* Client.connect() on a Client that was closed: a new connection replaces
\* #connection and #getResponse reads the greeting; nothing else is reset
\* because the Client holds nothing else.
Reconnect ==
  /\ Idle
  /\ conn = "closed"
  /\ conn' = "open"
  /\ cmds' = <<>>
  /\ served' = 0
  /\ wire' = Tagged(Greeting, 0)
  /\ srvEof' = FALSE
  /\ readq' = <<0>>
  /\ rd' = [k \in Ids |-> IF k = 0 THEN [NewReader EXCEPT !.stage = "status"] ELSE NewReader]
  /\ writeLog' = <<>>
  /\ call' = [NoCall EXCEPT !.op = "connect", !.pc = "returned"]
  /\ written' = <<>>
  /\ UNCHANGED <<options, art, astream>>

\* the server answers the oldest unanswered command
LifeReply ==
  /\ served < Len(cmds)
  /\ ~srvEof
  /\ LET c == cmds[served + 1]
         lines == CASE c = "DATE" -> DateReplies
                    [] c = "AUTHINFO USER" -> {StatusLine(s, <<>>) : s \in UserStatuses}
                    [] c = "AUTHINFO PASS" -> {StatusLine(s, <<>>) : s \in PassStatuses}
                    [] c = "QUIT" -> {StatusLine(s, <<>>) : s \in QuitStatuses}
     IN \E l \in lines : wire' = wire \o Tagged(l, served + 1)
  /\ served' = served + 1
  /\ UNCHANGED <<options, conn, cmds, srvEof, readq, rd, writeLog, art, astream, call, written>>

NextLife ==
  \/ Connect
  \/ Date
  \/ Authinfo
  \/ Quit
  \/ DateReturn
  \/ AuthResume
  \/ AuthReturn
  \/ QuitResume
  \/ Close
  \/ Reconnect
  \/ LifeReply
  \/ ServerClose
  \/ \E k \in Ids : GetResponse(k)
  \/ Fill
  \/ FillEof

SpecLife == Init /\ [][NextLife]_vars

\* ------------------------------------------------------ one command line
\* One call of request, capabilities, listgroup or newgroups, or the first
\* request of authinfo, on a connected Client, for each keyword and argument
\* list below: arguments that are omitted, short, as long as the limits of a
\* command line, message-ids with and without angle brackets, user names
\* with and without "@", and an argument that holds a line break.
MaxCommandLine == 512
MaxArguments == 497
Long(n) == [i \in 1..n |-> 97]
ArgValues ==
  {Undefined, Str(<<97>>), Str(<<49>>),
   Str(Long(MaxArguments)), Str(Long(MaxArguments + 1)), Str(Long(MaxCommandLine - 4))}
ArgLists ==
  {<<>>} \cup {<<a>> : a \in ArgValues} \cup {<<a, b>> : a \in ArgValues, b \in ArgValues}
\* "date", "Stat", "HDR"
Inputs == {<<100, 97, 116, 101>>, <<83, 116, 97, 116>>, <<72, 68, 82>>}
\* "a@b", "ab@c", "abc@d.e", "<a@b>", "<ab@c>"
MessageIds ==
  {<<97, 64, 98>>, <<97, 98, 64, 99>>, <<97, 98, 99, 64, 100, 46, 101>>,
   <<60, 97, 64, 98, 62>>, <<60, 97, 98, 64, 99, 62>>}
\* "u", "u@h", "fr@h"
Usernames == {<<117>>, <<117, 64, 104>>, <<102, 114, 64, 104>>}
\* an argument that holds a line break: "1" CR LF "QUIT"
BrokenArgs == {<<49, CR, LF, 81, 85, 73, 84>>}
CmdCall(op, input, args, gmt) ==
  [op |-> op, given |-> FALSE, pc |-> "none", k |-> 0, result |-> 0,
   input |-> input, args |-> args, gmt |-> gmt]
CmdCalls ==
  {CmdCall("request", i, as, "undefined") : i \in Inputs, as \in ArgLists}
  \cup {CmdCall("capabilities", <<>>, <<a>>, "undefined") : a \in {Undefined, Str(<<97>>)}}
  \cup {CmdCall("listgroup", <<>>, <<g, r>>, "undefined") :
          g \in {Undefined, Str(<<97>>)}, r \in {Undefined, Str(<<49>>)}}
  \cup {CmdCall("newgroups", <<>>, <<Str(<<49>>), Str(<<50>>)>>, gmt) :
          gmt \in {"undefined", "false", "true"}}
  \cup {CmdCall("request", i, <<Str(id)>>, "undefined") : i \in Inputs, id \in MessageIds}
  \cup {CmdCall("request", i, <<Str(a)>>, "undefined") : i \in Inputs, a \in BrokenArgs}
  \cup {CmdCall("authinfo", <<>>, <<Str(u)>>, "undefined") : u \in Usernames}

\* what each method passes to request
RequestInput(c) ==
  CASE c.op = "request" -> c.input
    [] c.op = "capabilities" -> Keyword("CAPABILITIES")
    [] c.op = "listgroup" -> Keyword("LISTGROUP")
    [] c.op = "newgroups" -> Keyword("NEWGROUPS")
    [] c.op = "authinfo" -> Keyword("AUTHINFO USER")
RequestArgs(c) ==
  IF c.op = "newgroups"
  THEN c.args \o <<IF c.gmt = "true" THEN Str(<<71, 77, 84>>) ELSE Str(<<>>)>>
  ELSE c.args

InitCmd ==
  /\ conn = "open"
  /\ cmds = <<>>
  /\ served = 0
  /\ wire = <<>>
  /\ srvEof = FALSE
  /\ readq = <<>>
  /\ rd = [k \in Ids |->
             IF k = 0 THEN Advance([NewReader EXCEPT !.stage = "status",
                                                      !.buf = Tagged(Greeting, 0),
                                                      !.took = {0}])
             ELSE NewReader]
  /\ writeLog = <<>>
  /\ art = NoArticle
  /\ astream = NoStream
  /\ call \in CmdCalls
  /\ written = <<>>
  /\ options = DefaultOptions

\* request(input, ...args) with a string input, up to the end of the write
RequestLine ==
  /\ conn = "open"
  /\ call.pc = "none"
  /\ WriteCommand(call.op)
  /\ written' = CommandLine(RequestInput(call), RequestArgs(call))
  /\ call' = [call EXCEPT !.pc = "first", !.k = Len(cmds) + 1]
  /\ UNCHANGED <<options, conn, served, wire, srvEof, readq, art, astream>>

NextCmd == RequestLine

SpecCmd == InitCmd /\ [][NextCmd]_vars

\* ------------------------------------------------------------------ claims
Last(s) == s[Len(s)]
RECURSIVE Chunks(_)
Chunks(log) ==
  IF log = <<>> THEN <<>>
  ELSE (IF Head(log).out = "chunk" THEN <<Head(log).chunk>> ELSE <<>>) \o Chunks(Tail(log))
IsStuffedLine(line) ==
  /\ Len(line) >= 4
  /\ line[1] = TERMINATION /\ line[2] = TERMINATION
  /\ line[Len(line) - 1] = CR /\ line[Len(line)] = LF

\* C1: no command is written while a returned Response's multi-line body is
\* undrained (its terminator not yet read), and at most one Response is live
\* per Client at any time.
C1_NoCommandWhileUndrained ==
  /\ \A i \in 1..Len(writeLog) : writeLog[i].live = {}
  /\ Cardinality(Live) <= 1

\* C2: concurrent callers of request are serialized: a command is written
\* only when the response to every earlier command has been received.
C2_Serialized == \A i \in 1..Len(writeLog) : writeLog[i].inflight = {}

C4_NoOctetBeyondResponse == \A k \in Ids : rd[k].took \subseteq {k}

\* C5: the body stream never emits the wire terminator line, and once the
\* line "." CR LF is read the stream is closed and no further line is read or
\* enqueued, even if more octets are buffered.
C5_TerminatorEndsStream ==
  \A k \in Ids :
    \A i \in 1..Len(rd[k].log) :
      rd[k].log[i].line = TERMINATING_LINE =>
        /\ rd[k].log[i].out = "close"
        /\ i = Len(rd[k].log)
        /\ rd[k].closed
        /\ k \notin Range(readq)
C5_Witness ==
  \E k \in Ids :
    /\ rd[k].ended
    /\ rd[k].log # <<>>
    /\ Last(rd[k].log).line = TERMINATING_LINE
    /\ rd[k].buf # <<>>
    /\ rd[k].got # <<>>

\* C6: a wire line ".." X CR LF is emitted as "." X CR LF (one leading dot
\* removed), a line not beginning with "." is emitted verbatim, and the
\* caller receives the emitted chunks in order.
C6_UnstuffOneDot ==
  \A k \in Ids :
    /\ \A i \in 1..Len(rd[k].log) :
         LET e == rd[k].log[i] IN
         /\ IsStuffedLine(e.line) => e.out = "chunk" /\ e.chunk = Tail(e.line)
         /\ (e.line # <<>> /\ e.line[1] # TERMINATION) =>
              e.out = "chunk" /\ e.chunk = e.line
    /\ rd[k].got \o rd[k].tslot \o rd[k].queue = Chunks(rd[k].log)
C6_Witness ==
  \E k \in Ids :
    /\ <<TERMINATION, 97, CR, LF>> \in Range(rd[k].got)
    /\ \E i \in 1..Len(rd[k].log) :
         rd[k].log[i].line = <<TERMINATION, TERMINATION, 97, CR, LF>>

C8_ClosesOnlyOnTerminator ==
  \A k \in Ids :
    rd[k].closed => rd[k].log # <<>> /\ Last(rd[k].log).line = TERMINATING_LINE

\* C9: a body line is read from the connection only in response to a read of
\* the caller, one line per read: the stream has never read more lines than
\* the caller has asked for chunks.
C9_NoReadAhead == \A k \in Ids : rd[k].nlines <= rd[k].nreq

\* C10: for every status other than 211 the framer attaches a body stream
\* if and only if the status is one of 100, 101, 215, 220, 221, 222, 224,
\* 225, 230, 231, whatever the statusText.
C10_BodyIffMultiLineCode ==
  \A k \in Ids :
    (rd[k].stage = "done" /\ rd[k].status # 211) =>
      (rd[k].body <=> rd[k].status \in {100, 101, 215, 220, 221, 222, 224, 225, 230, 231})

\* ---- status lines and replies as the server sent them
IsStatusLineForm(l) ==
  /\ Len(l) >= 6
  /\ l[1] \in 49..53 /\ IsDigit(l[2]) /\ IsDigit(l[3])
  /\ l[4] = 32
  /\ l[Len(l) - 1] = CR /\ l[Len(l)] = LF
LineCode(l) == (l[1] - 48) * 100 + (l[2] - 48) * 10 + (l[3] - 48)
LineText(l) == SubSeq(l, 5, Len(l) - 2)
IsPrintable(t) == \A i \in 1..Len(t) : t[i] \in 32..126
LeadingSpaces(t) ==
  IF \A i \in 1..Len(t) : t[i] = 32 THEN Len(t)
  ELSE (CHOOSE i \in 1..Len(t) : t[i] # 32 /\ \A j \in 1..(i - 1) : t[j] = 32) - 1
\* a three-digit code 100-599 at the start, then CRLF or whitespace and text
\* and CRLF
IsWellFormedStatusLine(l) ==
  /\ Len(l) >= 5
  /\ l[1] \in 49..53 /\ IsDigit(l[2]) /\ IsDigit(l[3])
  /\ l[Len(l) - 1] = CR /\ l[Len(l)] = LF
  /\ Len(l) > 5 => l[4] \in {9, 32}
\* the whole reply the server sent to call k: what the reader has been handed
\* and what is still on the wire
WholeReply(k) == Octets(rd[k].seen) \o Octets(wire)
LowerName(n) == [i \in 1..Len(n) |-> ToLower(n[i])]

\* C11: a 211 reply to GROUP gives a Response without body and a 211 reply
\* to LISTGROUP gives a Response with a multi-line body, whatever the
\* statusText.
C11_GroupEmptyListgroupBody ==
  \A k \in 1..Len(cmds) :
    (rd[k].stage = "done" /\ rd[k].status = 211) =>
      /\ cmds[k] = "GROUP" => ~rd[k].body
      /\ cmds[k] = "LISTGROUP" => rd[k].body

\* C12 (as claimed): for a status line DDD SP text CRLF the Response has
\* status DDD (1xx not coerced) and statusText equal to text, the octets after
\* the code and one space, without the CRLF.
C12_StatusAndTextVerbatim ==
  \A k \in Ids :
    (rd[k].stage = "done" /\ IsStatusLineForm(rd[k].sline)) =>
      /\ rd[k].status = LineCode(rd[k].sline)
      /\ rd[k].statusText = LineText(rd[k].sline)
\* C12 (amended): for a status line DDD SP text CRLF with text made of
\* printable US-ASCII characters and spaces the Response has status DDD (1xx
\* not coerced) and statusText equal to text without its leading spaces.
C12_StatusAndTextTrimmed ==
  \A k \in Ids :
    (/\ rd[k].stage = "done"
     /\ IsStatusLineForm(rd[k].sline)
     /\ IsPrintable(LineText(rd[k].sline))) =>
      /\ rd[k].status = LineCode(rd[k].sline)
      /\ rd[k].statusText =
           Drop(LineText(rd[k].sline), LeadingSpaces(LineText(rd[k].sline)))
C12_Witness ==
  \E k \in Ids :
    /\ rd[k].stage = "done"
    /\ rd[k].sline = <<49, 49, 49, 32, 32, 97, CR, LF>>
    /\ rd[k].status = 111
    /\ rd[k].statusText = <<97>>

C19_HeadersBlankBody ==
  \A k \in 1..Len(cmds) : \A a \in ArticleReplies :
    (rd[k].stage = "done" /\ WholeReply(k) = Render(a)) =>
      /\ rd[k].status = 220
      /\ rd[k].headers =
           [i \in 1..Len(a.hs) |-> [name |-> LowerName(a.hs[i].name), value |-> a.hs[i].value]]
      /\ rd[k].body
      /\ \E n \in 0..Len(a.body) : rd[k].got = Take(a.body, n)
      /\ rd[k].ended => rd[k].got = a.body
C19_Witness ==
  \E k \in 1..Len(cmds) :
    /\ rd[k].ended
    /\ Octets(rd[k].seen) =
         Render([hs |-> <<HeaderB(118), HeaderA(119)>>, body |-> <<<<104, CR, LF>>>>])
    /\ Len(rd[k].headers) = 2
    /\ rd[k].got = <<<<104, CR, LF>>>>

\* C20: enumerating Response.headers yields the parsed header lines in the
\* order the server sent them, one entry per line, each name in the spelling
\* received.
C20_HeadersOrderedMultimap ==
  \A k \in 1..Len(cmds) : \A a \in ArticleReplies :
    (rd[k].stage = "done" /\ WholeReply(k) = Render(a)) =>
      HeadersEntries(rd[k].headers) = a.hs

\* ---- the Article being encoded
BodyOf(a) == IF a.kind = "stream" THEN Flatten(a.chunks) ELSE a.body
EndsInCRLF(b) == Len(b) >= 2 /\ b[Len(b) - 1] = CR /\ b[Len(b)] = LF
\* made of CRLF-terminated lines: ends in CRLF, every CR is followed by LF
\* and every LF preceded by CR
IsCRLFLines(b) ==
  /\ EndsInCRLF(b)
  /\ \A i \in 1..Len(b) :
       /\ b[i] = CR => (i < Len(b) /\ b[i + 1] = LF)
       /\ b[i] = LF => (i > 1 /\ b[i - 1] = CR)
\* b with every line that begins with "." given one more "."
RECURSIVE StuffFrom(_, _)
StuffFrom(b, atLineStart) ==
  IF b = <<>> THEN <<>>
  ELSE (IF atLineStart /\ b[1] = TERMINATION THEN <<TERMINATION>> ELSE <<>>)
       \o <<b[1]>> \o StuffFrom(Tail(b), b[1] = LF)
Stuffed(b) == StuffFrom(b, TRUE)
Emitted == Flatten(astream.out)
EmittedBody == Drop(Emitted, Len(ArticleHead(art)))
\* header lines in insertion order, then the separator if a body follows
ExpectedHead(a) ==
  Flatten([i \in 1..Len(a.hs) |-> HeaderLine(a.hs[i])])
  \o (IF BodyOf(a) # <<>> /\ a.hs # <<>> THEN <<CR, LF>> ELSE <<>>)

\* C15: dot-stuffing round trip: for every body B made of CRLF-terminated
\* lines, the octets Article.stream() emits for the body, read through the
\* multi-line body stream, give exactly B.
C15_RoundTrip ==
  (IsCRLFLines(BodyOf(art)) /\ rd[1].ended) => Flatten(rd[1].got) = BodyOf(art)

\* C16: every body line that begins with "." is emitted with one extra
\* leading ".", for string and stream bodies and across chunk boundaries:
\* the octets emitted for the body begin with the dot-stuffed body.
C16_StuffsOnSend ==
  (astream.stage = "closed" /\ BodyOf(art) # <<>>) =>
    Take(EmittedBody, Len(Stuffed(BodyOf(art)))) = Stuffed(BodyOf(art))

\* C17: after the body the encoder emits CRLF "." CRLF if the body did not
\* end in CRLF and "." CRLF if it did, for string and stream bodies.
C17_TerminatorAlone ==
  (astream.stage = "closed" /\ BodyOf(art) # <<>>) =>
    \E enc \in {BodyOf(art), Stuffed(BodyOf(art))} :
      EmittedBody = enc \o (IF EndsInCRLF(BodyOf(art)) THEN <<>> ELSE <<CR, LF>>)
                        \o TERMINATING_LINE

\* C18: one line "Name: Value" CRLF per header in insertion order, then
\* exactly one blank CRLF before the body if and only if a body follows and
\* at least one header was emitted.
C18_HeadersInInsertionOrder ==
  astream.stage = "closed" =>
    /\ Take(Emitted, Len(ExpectedHead(art))) = ExpectedHead(art)
    /\ LET rest == Drop(Emitted, Len(ExpectedHead(art))) IN
       (rest # <<>> /\ rest[1] = CR) => (BodyOf(art) # <<>> /\ BodyOf(art)[1] = CR)

\* C14: when the reply to POST is not 340 (to IHAVE: not 335), post/ihave
\* writes no article octets and returns that reply.
C14_NoArticleUnlessInvited ==
  (/\ call.pc \in {"second", "returned"}
   /\ rd[call.k].status # (IF call.op = "post" THEN 340 ELSE 335)) =>
    /\ written = <<>>
    /\ call.pc = "returned"
    /\ call.result = call.k

\* C34: every wire line of a body that begins with "." followed by an octet
\* other than CR and LF, whatever that octet is, is emitted from its second
\* octet on.
C34_UnstuffAnyDotLine ==
  \A k \in Ids : \A i \in 1..Len(rd[k].log) :
    LET e == rd[k].log[i] IN
    (/\ Len(e.line) >= 2
     /\ e.line[1] = TERMINATION
     /\ e.line[2] \notin {CR, LF}) =>
      (e.out = "chunk" /\ e.chunk = Tail(e.line))

\* C36: once a 221 response has been returned, nothing of that reply, its
\* terminator line included, is left on the connection for the next request
\* to read, and no other request has read any of it.
C36_HeadTerminatorConsumed ==
  \A k \in Ids :
    (rd[k].stage = "done" /\ rd[k].status = 221) =>
      /\ \A i \in 1..Len(wire) : wire[i].k # k
      /\ \A j \in Ids : j # k => k \notin rd[j].took

\* the octets call k has consumed from its buffer, in order
Consumed(k) == Take(Octets(rd[k].seen), Len(rd[k].seen) - Len(rd[k].buf))
\* the lines the body stream has read
BodyRead(k) == Flatten([i \in 1..Len(rd[k].log) |-> rd[k].log[i].line])
\* what was consumed between the status line and the lines of the body
HeaderRegion(k) ==
  SubSeq(Consumed(k), Len(rd[k].sline) + 1, Len(Consumed(k)) - Len(BodyRead(k)))
NumLines(s) == Cardinality({i \in 1..Len(s) : s[i] = LF})
EndsWithBlankLine(s) ==
  /\ Len(s) >= 2
  /\ s[Len(s) - 1] = CR /\ s[Len(s)] = LF
  /\ Len(s) > 2 => s[Len(s) - 2] = LF

\* C37: in a 220/221 response every line consumed between the status line and
\* the lines read by the body stream is a header line that was appended to
\* headers, or the one blank line after them; a line that fails header
\* syntax is not consumed by header parsing.
C37_NoLineLost ==
  \A k \in 1..Len(cmds) :
    (rd[k].stage = "done" /\ rd[k].status \in {220, 221}) =>
      \/ NumLines(HeaderRegion(k)) = Len(rd[k].headers)
      \/ /\ NumLines(HeaderRegion(k)) = Len(rd[k].headers) + 1
         /\ EndsWithBlankLine(HeaderRegion(k))

\* C32: on a Client configured with ssl = true the connection is wrapped in
\* TLS from the moment it is open, so the greeting is read and every command
\* (AUTHINFO PASS with the password among them) is written over TLS.
C32_NoPlaintextWhenSsl ==
  (options.ssl /\ conn = "open") => Transport = "tls"

\* the caller cancelled the body of response k before its terminator was read
Cancelled(k) ==
  \E i \in 1..Len(rd[k].log) : rd[k].log[i].out = "cancel"

\* C33: once a body has been cancelled before its terminator was read, the
\* connection is closed, and no later request has been handed octets of the
\* cancelled reply.
C33_CancelPoisonsConnection ==
  \A k \in Ids :
    Cancelled(k) =>
      /\ conn = "closed"
      /\ \A j \in Ids : j > k => k \notin rd[j].took

\* a reply whose status line is followed by lines that all end in CR LF, the
\* last of them the terminator line and none before it
IsWellFormedMultiLine(w) ==
  /\ Len(w) >= 8
  /\ IsWellFormedStatusLine(Take(w, FirstLF(Tagged(w, 0))))
  /\ \A i \in 2..Len(w) : w[i] = LF => w[i - 1] = CR
  /\ Drop(w, Len(w) - 4) = <<LF>> \o TERMINATING_LINE
  /\ \A i \in 1..(Len(w) - 5) : SubSeq(w, i, i + 3) # <<LF>> \o TERMINATING_LINE
\* the body of response 1 is being drained and its reply is well formed
Draining ==
  /\ rd[1].stage = "done"
  /\ rd[1].body
  /\ IsWellFormedMultiLine(WholeReply(1))
\* the caller has been told end-of-stream; the stream read one line for each
\* chunk it emitted and one more, the terminator; nothing of the reply is
\* left unread
Drained ==
  /\ rd[1].ended
  /\ rd[1].nlines = Len(rd[1].got) + 1
  /\ Last(rd[1].log).line = TERMINATING_LINE
  /\ wire = <<>>
  /\ rd[1].buf = <<>>

\* C40: for a well-formed multi-line reply, a caller that keeps reading the
\* body reaches end-of-stream, one wire line having been consumed for each
\* chunk emitted, and one for the terminator, with nothing left unread.
C40_DrainTerminates == Draining ~> Drained

\* the body of a reply with two lines before the terminator has been drained
C40_Witness ==
  /\ Draining
  /\ Drained
  /\ Len(rd[1].got) = 2

\* C39: when post or ihave has written an Article after a 340 or 335 reply,
\* whatever the Article (headers only, no body, an empty string as body), the
\* octets written end with the terminator line "." CRLF, so the server has
\* seen the end of the article before the final response is awaited.
C39_ArticleEndsWithTerminator ==
  (/\ call.pc \in {"second", "returned"}
   /\ rd[call.k].status = (IF call.op = "post" THEN 340 ELSE 335)
   /\ call.given) =>
    /\ Len(written) >= 3
    /\ Drop(written, Len(written) - 3) = TERMINATING_LINE
    /\ SawTerminator(written)

\* ------------------------------------------------ claims on the Client calls
IsAuth(c) == c \in {"AUTHINFO USER", "AUTHINFO PASS"}
\* the k-th command of this connection was an AUTHINFO command answered 281
Accepted(k) == IsAuth(cmds[k]) /\ rd[k].stage = "done" /\ rd[k].status = 281
WasAuthenticated == \E k \in 1..Len(cmds) : Accepted(k)
QuitLine == <<81, 85, 73, 84, CR, LF>>
UserLine == <<65, 85, 84, 72, 73, 78, 70, 79, 32, 85, 83, 69, 82, 32, 117, CR, LF>>
PassLine == <<65, 85, 84, 72, 73, 78, 70, 79, 32, 80, 65, 83, 83, 32, 112, CR, LF>>

\* C21: authenticated is false once connect() has returned and until an
\* AUTHINFO command is answered with 281; once authinfo() has returned a 281
\* response authenticated is true, and after 481, 482 or 483 it is false.
C21_AuthenticatedFlag ==
  /\ (conn = "open" /\ rd[0].stage = "done" /\ ~WasAuthenticated) =>
       authenticated = "false"
  /\ (call.op = "authinfo" /\ call.pc = "returned") =>
       authenticated = (IF rd[call.result].status = 281 THEN "true" ELSE "false")

\* C22: once an AUTHINFO command has been answered with 281, no later call
\* of authinfo writes an AUTHINFO command to that connection.
C22_AuthinfoNoOpOnceAuthenticated ==
  \A j \in 1..Len(cmds) : \A k \in 1..Len(cmds) :
    (j < k /\ Accepted(j)) => ~IsAuth(cmds[k])

\* C23: after close() on a Client that had been authenticated, authenticated
\* is false, and it is false after the connect() that follows.
C23_ReconnectResets ==
  /\ (call.op = "close" /\ WasAuthenticated) => authenticated = "false"
  /\ call.op = "connect" => authenticated = "false"

\* what C24 says of the commands of a call of authinfo on an unauthenticated
\* Client: USER first, PASS if and only if the reply to USER is 381 and only
\* after that reply, no third command
FirstAuth ==
  /\ call.op = "authinfo"
  /\ call.pc \in {"first", "second", "returned"}
  /\ \A j \in 1..(call.k - 1) : ~Accepted(j)
AuthCommands ==
  LET k == call.k IN
  /\ cmds[k] = "AUTHINFO USER"
  /\ call.pc = "first" => written = UserLine
  /\ call.pc = "second" => written = PassLine
  /\ Len(cmds) <= k + 1
  /\ Len(cmds) = k + 1 =>
       (cmds[k + 1] = "AUTHINFO PASS" /\ rd[k].stage = "done" /\ rd[k].status = 381)
  /\ call.pc = "returned" =>
       /\ (rd[k].status = 381) <=> (Len(cmds) = k + 1)
       /\ rd[call.result].stage = "done"

C25_ErrorStatusReturned ==
  \A k \in 1..Len(cmds) :
    (/\ rd[k].stage = "done"
     /\ IsWellFormedStatusLine(rd[k].sline)
     /\ rd[k].status \in 400..599) =>
      \/ call.pc = "first" /\ k = call.k
      \/ call.pc = "second" /\ k = call.k + 1
      \/ call.pc = "returned" /\ call.result = k

\* C26: after a request whose write failed, or whose reply began with a line
\* that is no status line, the call has failed and the connection is closed.
C26_ErrorsCloseTheClient ==
  /\ (call.op \in {"date", "authinfo", "quit"} /\ call.pc = "threw") => conn = "closed"
  /\ \A k \in 1..Len(cmds) :
       (rd[k].stage = "done" /\ rd[k].sline # <<>> /\ ~IsWellFormedStatusLine(rd[k].sline)) =>
         (call.pc = "threw" /\ conn = "closed")

\* C27: no call of close() raises an error, whatever came before it.
C27_CloseIdempotent ==
  call.op = "close" => (call.pc = "returned" /\ conn = "closed")

\* C28: quit() writes QUIT CRLF and keeps the connection open while it awaits
\* the reply; when it returns, the reply has been read, it is what quit()
\* returns, and the connection is closed.
C28_QuitClosesAfterReply ==
  call.op = "quit" =>
    /\ call.pc = "first" =>
         (conn = "open" /\ cmds[call.k] = "QUIT" /\ written = QuitLine)
    /\ call.pc = "returned" =>
         (conn = "closed" /\ call.result = call.k /\ rd[call.k].stage = "done")

\* quit() has returned the 205 reply
C28_Witness ==
  /\ call.op = "quit"
  /\ call.pc = "returned"
  /\ rd[call.result].status = 205
  /\ conn = "closed"

\* ------------------------------------------------ claims on the command line
\* the arguments the caller supplied, in order
Supplied(c) ==
  SelectSeq(c.args, LAMBDA a : a.def)
    \o (IF c.gmt = "true" THEN <<Str(<<71, 77, 84>>)>> ELSE <<>>)
ExpectedLine(c) ==
  toUpperCase(RequestInput(c))
    \o Flatten([i \in 1..Len(Supplied(c)) |-> <<32>> \o Supplied(c)[i].s])
    \o <<CR, LF>>

\* C29: every command line written is at most 512 octets, and what follows
\* the keyword and its space, up to CRLF, at most 497 octets.
C29_CommandLineWithinLimits ==
  (call.pc = "first" /\ written # <<>>) =>
    /\ Len(written) <= MaxCommandLine
    /\ Len(written) - Len(RequestInput(call)) - 3 <= MaxArguments

\* C30: the line written is the keyword in upper case, then a space and the
\* argument for each argument supplied, in order, then CRLF; an omitted
\* argument contributes no octet.
C30_OmittedArgumentsSkipped ==
  (call.pc = "first" /\ \A i \in 1..Len(call.args) : 64 \notin Range(call.args[i].s)) =>
    written = ExpectedLine(call)

\* local@domain with a non-empty local part and no angle brackets
IsBareMessageId(s) ==
  /\ Len(s) >= 3
  /\ s[1] # 60 /\ s[Len(s)] # 62
  /\ \E p \in 2..(Len(s) - 1) : s[p] = 64
IsWrappedMessageId(s) == Len(s) >= 3 /\ s[1] = 60 /\ s[Len(s)] = 62
IsMessageIdCall ==
  /\ call.op = "request"
  /\ call.pc = "first"
  /\ Len(call.args) = 1
  /\ call.args[1].s \in MessageIds

\* C31: a message-id passed as local@domain without angle brackets is written
\* as <local@domain>, for a local part of any length from one octet up; a
\* message-id passed in angle brackets is written unchanged.
C31_MessageIdWrapped ==
  IsMessageIdCall =>
    LET id == call.args[1].s IN
    written = toUpperCase(call.input) \o <<32>>
                \o (IF IsBareMessageId(id) THEN <<60>> \o id \o <<62>> ELSE id)
                \o <<CR, LF>>

\* C35: the first line authinfo writes is AUTHINFO USER, a space, the user
\* name exactly as given, and CRLF, also for a user name of the form
\* name@host.
C35_UsernameVerbatim ==
  (call.op = "authinfo" /\ call.pc = "first") =>
    written = Keyword("AUTHINFO USER") \o <<32>> \o call.args[1].s \o <<CR, LF>>

\* C38: what one call of request with a command string writes holds exactly
\* one CRLF, and it is at the end.
C38_OneCommandLine ==
  (call.pc = "first" /\ written # <<>>) =>
    /\ Len(written) >= 2
    /\ \A i \in 1..(Len(written) - 1) :
         (written[i] = CR /\ written[i + 1] = LF) <=> (i = Len(written) - 1)

====
